---- MODULE Spec2Model ----
(***************************************************************************)
(* Model of serialmonitor.py: the byte buffer (SerialWrapper), the per     *)
(* format cursors (SerialStream), the escape registry and the round        *)
(* algorithm with its reconciliation (Session), and the main loop with its *)
(* quit signal.                                                            *)
(*                                                                         *)
(* Text is a sequence of character codes ("%a" is <<37, 97>>); a value     *)
(* returned by ser.read() is a bytes object, a sequence of at most one     *)
(* integer (<<65>> is b'A', << >> is the b'' of a read that timed out).    *)
(***************************************************************************)
EXTENDS Integers, Sequences, FiniteSets, TLC

\* ------------------------------------------------------------------ bounds
\* ser.read() calls that return during one session
MaxReads == 4
\* rounds (Session.read calls) started during one session
MaxRounds == 3
\* SerialWrapper.close calls on one wrapper
MaxCloses == 3

\* byte values a device sends in the model: 'A', 'd', 'e'
SrcBytes == {65, 100, 101}

\* ------------------------------------------------------------------ text
Max(S) == CHOOSE x \in S : \A y \in S : y <= x
Min(S) == CHOOSE x \in S : \A y \in S : x <= y

RECURSIVE Digits(_, _)
\* the digits of n > 0 in the given base, most significant first, as
\* character codes ('0'..'9', 'a'..'f'); the empty text for 0
Digits(n, base) ==
  IF n = 0 THEN << >>
  ELSE LET d == n % base
       IN  Append(Digits(n \div base, base), IF d < 10 THEN 48 + d ELSE 87 + d)

\* str(n) of an integer n >= 0
Str(n) == IF n = 0 THEN <<48>> ELSE Digits(n, 10)

\* bin(n): "0b" and the binary digits
Bin(n) == <<48, 98>> \o (IF n = 0 THEN <<48>> ELSE Digits(n, 2))

\* hex(n): "0x" and the hexadecimal digits
Hex(n) == <<48, 120>> \o (IF n = 0 THEN <<48>> ELSE Digits(n, 16))

RECURSIVE LStrip(_, _)
\* s.lstrip(chars): drop leading characters that are in the set chars
LStrip(s, chars) ==
  IF s # << >> /\ Head(s) \in chars THEN LStrip(Tail(s), chars) ELSE s

RECURSIVE ZFill(_, _)
\* s.zfill(width) of a text without a sign
ZFill(s, width) == IF Len(s) >= width THEN s ELSE ZFill(<<48>> \o s, width)

RECURSIVE Split(_, _)
\* f.split(sep) for a one character separator: the pieces between the
\* occurrences of sep, empty pieces included
Split(f, sep) ==
  IF f = << >> THEN << << >> >>
  ELSE LET rest == Split(Tail(f), sep)
       IN  IF Head(f) = sep THEN << << >> >> \o rest
           ELSE << <<Head(f)>> \o Head(rest) >> \o Tail(rest)

RECURSIVE FromBytes(_, _)
\* int.from_bytes(bytes, byteorder)
FromBytes(bytes, order) ==
  IF bytes = << >> THEN 0
  ELSE IF order = "big"
       THEN FromBytes(SubSeq(bytes, 1, Len(bytes) - 1), order) * 256
              + bytes[Len(bytes)]
       ELSE Head(bytes) + 256 * FromBytes(Tail(bytes), order)

\* Session.byteToInt
byteToInt(byte, order) == FromBytes(byte, order)

\* intToBin without the zfill
intToBinNoPad(integer) == LStrip(Bin(integer), {48, 98})

\* Session.intToBin
intToBin(integer) == ZFill(LStrip(Bin(integer), {48, 98}), 8)

\* Session.intToHex
intToHex(integer) == ZFill(LStrip(Hex(integer), {48, 120}), 2)

\* chr(n)
Chr(n) == <<n>>

BADESC == <<60, 66, 65, 68, 69, 83, 67, 62>>
RECESC == <<60, 82, 69, 67, 69, 83, 67, 62>>

\* ------------------------------------------------------- cursor and buffer
\* pop that drops one element too many
PopOneMore(b, count) == SubSeq(b, count + 2, Len(b))

\* pop whose result is not stored back
PopKeep(b, count) == b

\* SerialWrapper.pop: the buffer without its first count elements
Pop(b, count) == SubSeq(b, count + 1, Len(b))

\* trim that leaves the offset alone
TrimNone(p, index) == p

\* SerialStream.trim
Trim(p, index) == p - index

\* the offsets of all cursors, for the scans of Session.read
Indexes(p) == {p[i] : i \in 1..Len(p)}

\* the minInd scan of buffered mode
MinInd(p) == Min(Indexes(p))

\* a scan that stops at the first stream
MaxIndFirst(p) == p[1]

\* the maxInd scan of synchronized mode
MaxInd(p) == Max(Indexes(p))

\* ------------------------------------------------------- escape registry
\* Session.escapeHandlers, in registration order
escapeHandlers ==
  << [char |-> 98,  kind |-> "BinByte"],
     [char |-> 104, kind |-> "HexByte"],
     [char |-> 105, kind |-> "IntegerByte"],
     [char |-> 100, kind |-> "IntegerWord"],
     [char |-> 97,  kind |-> "AsciiByte"],
     [char |-> 120, kind |-> "DiscardByte"],
     [char |-> 101, kind |-> "RecursiveByte"],
     [char |-> 110, kind |-> "Newline"],
     [char |-> 116, kind |-> "Tab"] >>

\* The result of running an escape against a cursor at offset p over the
\* buffer b: either one of its reads waits for the source (blocked), or the
\* escape returns its text with the cursor at ptr; the reads in between
\* returned the buffer elements at offsets p .. ptr - 1.
Blocked(p) == [blocked |-> TRUE, text |-> << >>, ptr |-> p, depth |-> 0]
Done(t, p, d) == [blocked |-> FALSE, text |-> t, ptr |-> p, depth |-> d]

\* SerialStream.read over SerialWrapper.peek: can the read at offset p be
\* served from the buffer without a push
Avail(p, b) == p < Len(b)

\* a word composed in the configured byte order
WordByOrder(first, second, order) ==
  IF order = "big" THEN first * 256 + second ELSE second * 256 + first

\* IntegerWordEscapeHandler.process: (first << 8) | second, for bytes
Word(first, second, order) == first * 256 + second

\* a guard that never fires
GuardNever(resc, char) == FALSE

\* RecursiveByteEscapeHandler.process: `resc == self.getChar()`
Guard(resc, char) == resc = <<char>>

RECURSIVE processEscape(_, _, _, _, _)
\* Session.processEscape and the handlers' process methods; depth counts
\* the nested processEscape calls
processEscape(escape, p, b, order, depth) ==
  LET matches == {i \in 1..Len(escapeHandlers) : escapeHandlers[i].char = escape}
  IN
  IF matches = {} THEN Done(BADESC, p, depth)
  ELSE
  LET h == escapeHandlers[Min(matches)]
      one == byteToInt(b[p + 1], order)
  IN
  CASE h.kind = "BinByte" ->
         IF Avail(p, b) THEN Done(intToBin(one), p + 1, depth) ELSE Blocked(p)
    [] h.kind = "HexByte" ->
         IF Avail(p, b) THEN Done(intToHex(one), p + 1, depth) ELSE Blocked(p)
    [] h.kind = "IntegerByte" ->
         IF Avail(p, b) THEN Done(Str(one), p + 1, depth) ELSE Blocked(p)
    [] h.kind = "IntegerWord" ->
         IF Avail(p + 1, b)
         THEN Done(Str(Word(one, byteToInt(b[p + 2], order), order)), p + 2,
                   depth)
         ELSE Blocked(p)
    [] h.kind = "AsciiByte" ->
         IF Avail(p, b) THEN Done(Chr(one), p + 1, depth) ELSE Blocked(p)
    [] h.kind = "DiscardByte" ->
         IF Avail(p, b) THEN Done(<< >>, p + 1, depth) ELSE Blocked(p)
    [] h.kind = "RecursiveByte" ->
         IF ~Avail(p, b) THEN Blocked(p)
         ELSE IF Guard(Chr(one), h.char) THEN Done(RECESC, p + 1, depth)
         ELSE processEscape(one, p + 1, b, order, depth + 1)
    [] h.kind = "Newline" -> Done(<<10>>, p, depth)
    [] h.kind = "Tab" -> Done(<<9>>, p, depth)

\* ------------------------------------------------------------------ state
VARIABLES
  escape,     \* Session.escape: the escape character
  byteorder,  \* Session.byteorder: "big" or "little"
  buffer,     \* Session.buffer: TRUE for buffered mode (-fb)
  formats,    \* Session.formats: the templates
  ser,        \* SerialWrapper.ser: "open", or "None" once closed
  closes,     \* how many times the port itself was closed
  rets,       \* what each SerialWrapper.close call returned, in call order
  preload,    \* bytes the port had received when the session started
  dev,        \* bytes the port has received and ser.read() has not returned
  buf,        \* SerialWrapper.buf
  tag,        \* for each element of buf, which ser.read() call returned it
  ptr,        \* SerialStream.ptr of each stream
  running,    \* main's running flag
  pc,         \* where main is
  fi,         \* Session.read: index of the format being processed
  tk,         \* Session.read: index of the token being processed, 0 = toks[0]
  line,       \* Session.read: the text assembled so far in this round
  outs,       \* the part of line each format contributed
  stdout,     \* the last chunk written to sys.stdout
  written,    \* how many chunks were written
  rounds,     \* how many rounds were started
  pulled,     \* how many ser.read() calls returned
  nbytes,     \* how many of them returned a byte
  log,        \* for each stream, the tags of the values read() returned to it
  start,      \* each cursor's offset when the round started
  last,       \* what the last reconciliation did
  sumDiff,    \* sum over the rounds of (max - min) bytes consumed in the round
  differ,     \* in every round so far the streams consumed unequal counts
  laggers,    \* the streams that consumed the least in every round so far
  skipped,    \* tags dropped in a round in which some stream had not read them
  pend,       \* reads of the escape in progress that a push has served
  failed,     \* main's `except serial.SerialException` was entered
  sigpc       \* where main was when the first quit signal arrived, or "none"

config == <<escape, byteorder, buffer, formats>>
port   == <<ser, closes, rets, preload, dev, pulled, nbytes>>
engine == <<buf, tag, ptr, fi, tk, line, outs>>
ghost  == <<log, start, last, sumDiff, differ, laggers, skipped, pend,
            failed>>
vars   == <<config, port, engine, ghost, running, pc, stdout, written, rounds,
            sigpc>>

\* escape characters a session is configured with: '%', 'a', 'e'
Escapes == {37, 97, 101}

\* the -f lists a session is configured with, for the escape character e;
\* the empty list stands for no -f option (args.format is None)
FormatLists(e) ==
  { << >>,
    << <<e, 97>>, <<e, 97, e, 97, e, 97>> >>,
    << <<e, 97>>, <<e, 97, e, 97>> >>,
    << <<e, 101>>, <<e, 97, e, 97>> >>,
    << <<e>> >>,
    << <<120, 61, e, 100, 44, e>> >>,
    << <<e, 122, 33>>, <<e, 110>> >>,
    << <<e, 98, e, 104, e, 105, e, 120, e, 116>> >>,
    << <<e, e, 97>> >>,
    << <<e, 101, e>>, <<e, 97>>, <<e, 97, e, 97>> >> }

\* what the port holds when the session starts: nothing, or "ABCD"
Preloads == { << >>, <<65, 66, 67, 68>> }

N == Len(formats)
Streams == 1..N

\* Session.__init__
Init ==
  /\ escape \in Escapes
  /\ byteorder \in {"big", "little"}
  /\ buffer \in BOOLEAN
  /\ \E f \in FormatLists(escape) :
        formats = IF f = << >> THEN << <<escape, 97>> >> ELSE f
  /\ ser = "open"
  /\ closes = 0
  /\ rets = << >>
  /\ preload \in Preloads
  /\ dev = preload
  /\ buf = << >>
  /\ tag = << >>
  /\ ptr = [i \in 1..Len(formats) |-> 0]
  /\ running = TRUE
  /\ pc = "while"
  /\ fi = 0
  /\ tk = 0
  /\ line = << >>
  /\ outs = [i \in 1..Len(formats) |-> << >>]
  /\ stdout = << >>
  /\ written = 0
  /\ rounds = 0
  /\ pulled = 0
  /\ nbytes = 0
  /\ log = [i \in 1..Len(formats) |-> << >>]
  /\ start = [i \in 1..Len(formats) |-> 0]
  /\ last = [dropped |-> 0, before |-> << >>, ptrs |-> << >>]
  /\ sumDiff = 0
  /\ differ = TRUE
  /\ laggers = 1..Len(formats)
  /\ skipped = {}
  /\ pend = 0
  /\ failed = FALSE
  /\ sigpc = "none"

\* byte values of the words a device sends in the sessions of SpecBytes
WordBytes == {0, 1, 2, 10, 127, 128, 255}

\* Session.__init__ for the sessions that exercise the conversions: the
\* format `%b%h` over a port that holds one byte value three times, or the
\* format `%d` over a port that holds a word and one more byte
InitBytes ==
  /\ escape = 37
  /\ byteorder \in {"big", "little"}
  /\ buffer \in BOOLEAN
  /\ \/ /\ formats = << <<37, 98, 37, 104>> >>
        /\ \E v \in 0..255 : preload = <<v, v, v>>
     \/ /\ formats = << <<37, 100>> >>
        /\ \E v \in WordBytes, w \in WordBytes : preload = <<v, w, v>>
  /\ ser = "open"
  /\ closes = 0
  /\ rets = << >>
  /\ dev = preload
  /\ buf = << >>
  /\ tag = << >>
  /\ ptr = <<0>>
  /\ running = TRUE
  /\ pc = "while"
  /\ fi = 0
  /\ tk = 0
  /\ line = << >>
  /\ outs = << << >> >>
  /\ stdout = << >>
  /\ written = 0
  /\ rounds = 0
  /\ pulled = 0
  /\ nbytes = 0
  /\ log = << << >> >>
  /\ start = <<0>>
  /\ last = [dropped |-> 0, before |-> << >>, ptrs |-> << >>]
  /\ sumDiff = 0
  /\ differ = TRUE
  /\ laggers = {1}
  /\ skipped = {}
  /\ pend = 0
  /\ failed = FALSE
  /\ sigpc = "none"

\* ------------------------------------------------------------ Session.read
\* toks of the format being processed
toks == Split(formats[fi], escape)

\* the token being processed, one of toks[1:]
tok == toks[tk + 1]

\* an empty token dispatched as the discard escape 'x'
SelectorDiscard(t, e) == IF Len(t) > 0 THEN t[1] ELSE 120

\* the character Session.read hands to processEscape for the token t
Selector(t, e) == IF Len(t) > 0 THEN t[1] ELSE e

\* the whole token appended, its code included
TrailingWhole(t) == t

\* the text Session.read appends after the escape's own text
Trailing(t) == IF Len(t) > 0 THEN Tail(t) ELSE << >>

\* the escape of the token being processed, run on the buffer as it is
Pending == processEscape(Selector(tok, escape), ptr[fi], buf, byteorder, 1)

\* main is inside Session.read at an escape whose next read needs a push
AtRead == pc = "read" /\ tk >= 1 /\ Pending.blocked

\* move on to the next token, the next format, or the reconciliation
Advance ==
  IF tk + 1 < Len(toks) THEN /\ tk' = tk + 1
                              /\ UNCHANGED <<fi, pc>>
  ELSE IF fi < N THEN /\ fi' = fi + 1
                      /\ tk' = 0
                      /\ UNCHANGED pc
  ELSE /\ pc' = "reconcile"
       /\ UNCHANGED <<fi, tk>>

\* a loop that starts the next round without looking at running
BeginRoundAlways ==
  /\ UNCHANGED sigpc
  /\ pc = "while"
  /\ rounds < MaxRounds
  /\ pc' = "read"
  /\ rounds' = rounds + 1
  /\ fi' = 1
  /\ tk' = 0
  /\ line' = << >>
  /\ outs' = [i \in Streams |-> << >>]
  /\ start' = ptr
  /\ UNCHANGED <<config, port, buf, tag, ptr, running, stdout, written,
                 log, last, sumDiff, differ, laggers, skipped, pend, failed>>

\* main: `while running:` taken, Session.read begins
BeginRound ==
  /\ UNCHANGED sigpc
  /\ pc = "while"
  /\ running
  /\ rounds < MaxRounds
  /\ pc' = "read"
  /\ rounds' = rounds + 1
  /\ fi' = 1
  /\ tk' = 0
  /\ line' = << >>
  /\ outs' = [i \in Streams |-> << >>]
  /\ start' = ptr
  /\ UNCHANGED <<config, port, buf, tag, ptr, running, stdout, written,
                 log, last, sumDiff, differ, laggers, skipped, pend, failed>>

\* Session.read: buf += toks[0]
Prefix ==
  /\ UNCHANGED sigpc
  /\ pc = "read"
  /\ tk = 0
  /\ line' = line \o toks[1]
  /\ outs' = [outs EXCEPT ![fi] = @ \o toks[1]]
  /\ Advance
  /\ UNCHANGED <<config, port, buf, tag, ptr, running, stdout, written,
                 rounds, ghost>>

\* Session.read: one token of toks[1:], its escape served from the buffer
Escape ==
  /\ UNCHANGED sigpc
  /\ pc = "read"
  /\ tk >= 1
  /\ ~Pending.blocked
  /\ LET r == Pending
         text == r.text \o Trailing(tok)
     IN  /\ line' = line \o text
         /\ outs' = [outs EXCEPT ![fi] = @ \o text]
         /\ ptr' = [ptr EXCEPT ![fi] = r.ptr]
         /\ log' = [log EXCEPT ![fi] = @ \o
                      [j \in 1..(r.ptr - ptr[fi]) |->
                         [call |-> tag[ptr[fi] + j].call,
                          seq |-> tag[ptr[fi] + j].seq,
                          round |-> rounds]]]
  /\ pend' = 0
  /\ Advance
  /\ UNCHANGED <<config, port, buf, tag, running, stdout, written, rounds,
                 start, last, sumDiff, differ, laggers, skipped, failed>>

\* SerialWrapper.push: ser.read() returns a byte
PushByte ==
  /\ UNCHANGED sigpc
  /\ AtRead
  /\ pulled < MaxReads
  /\ \E b \in (IF dev # << >> THEN {Head(dev)} ELSE SrcBytes) :
        /\ buf' = buf \o << <<b>> >>
        /\ tag' = Append(tag, [call |-> pulled + 1, seq |-> nbytes + 1])
  /\ dev' = IF dev # << >> THEN Tail(dev) ELSE dev
  /\ pulled' = pulled + 1
  /\ nbytes' = nbytes + 1
  /\ pend' = pend + 1
  /\ UNCHANGED <<config, ser, closes, rets, preload, ptr, fi, tk, line,
                 outs, log, start, last, sumDiff, differ, laggers, skipped,
                 failed, running, pc, stdout, written, rounds>>

\* SerialWrapper.push: ser.read() times out and returns b''
PushTimeout ==
  /\ UNCHANGED sigpc
  /\ AtRead
  /\ pulled < MaxReads
  /\ dev = << >>
  /\ buf' = buf \o << << >> >>
  /\ tag' = Append(tag, [call |-> pulled + 1, seq |-> 0])
  /\ pulled' = pulled + 1
  /\ pend' = pend + 1
  /\ UNCHANGED <<config, ser, closes, rets, preload, dev, nbytes, ptr, fi,
                 tk, line, outs, log, start, last, sumDiff, differ, laggers,
                 skipped, failed, running, pc, stdout, written, rounds>>

\* an except clause that leaves main without reaching sw.close()
PushErrorLeaves ==
  /\ UNCHANGED sigpc
  /\ AtRead
  /\ pc' = "done"
  /\ failed' = TRUE
  /\ UNCHANGED <<config, port, engine, log, start, last, sumDiff, differ,
                 laggers, skipped, pend, running, stdout, written, rounds>>

\* SerialWrapper.push: ser.read() raises SerialException, caught in main
PushError ==
  /\ UNCHANGED sigpc
  /\ AtRead
  /\ pc' = "close"
  /\ failed' = TRUE
  /\ UNCHANGED <<config, port, engine, log, start, last, sumDiff, differ,
                 laggers, skipped, pend, running, stdout, written, rounds>>

\* Session.read: the reconciliation, `if self.buffer: ... else: ...`
Reconcile ==
  /\ UNCHANGED sigpc
  /\ pc = "reconcile"
  /\ LET count == IF buffer THEN MinInd(ptr) ELSE MaxInd(ptr)
         used == {ptr[i] - start[i] : i \in Streams}
     IN  /\ ptr' = [i \in Streams |->
                      IF buffer THEN Trim(ptr[i], count)
                      ELSE Trim(ptr[i], ptr[i])]
         /\ buf' = Pop(buf, count)
         /\ tag' = Pop(tag, count)
         /\ last' = [dropped |-> Len(buf) - Len(buf'), before |-> tag,
                      ptrs |-> ptr]
         /\ sumDiff' = sumDiff + (Max(used) - Min(used))
         /\ differ' = (differ /\ Max(used) # Min(used))
         /\ laggers' = {i \in laggers : ptr[i] - start[i] = Min(used)}
         /\ skipped' = skipped \cup
               {[call |-> tag[j].call, round |-> rounds] :
                  j \in (MinInd(ptr) + 1)..Min({count, Len(tag)})}
  /\ pc' = "write"
  /\ UNCHANGED <<config, port, fi, tk, line, outs, log, start, pend, failed,
                 running, stdout, written, rounds>>

\* main: sys.stdout.write(line)
Write ==
  /\ UNCHANGED sigpc
  /\ pc = "write"
  /\ stdout' = line
  /\ written' = written + 1
  /\ pc' = "while"
  /\ UNCHANGED <<config, port, engine, ghost, running, rounds>>

\* main: `while running:` not taken
ExitLoop ==
  /\ UNCHANGED sigpc
  /\ pc = "while"
  /\ ~running
  /\ pc' = "close"
  /\ UNCHANGED <<config, port, engine, ghost, running, stdout, written,
                 rounds>>

\* a close that releases the port and forgets to clear self.ser
closeKeepsSer(s) ==
  IF s # "None" THEN [ser |-> s, released |-> 1, ret |-> TRUE]
  ELSE [ser |-> s, released |-> 0, ret |-> FALSE]

\* SerialWrapper.close on a wrapper whose ser is s: the new ser, how many
\* times ser.close() ran, and the value returned
close(s) ==
  IF s # "None" THEN [ser |-> "None", released |-> 1, ret |-> TRUE]
  ELSE [ser |-> s, released |-> 0, ret |-> FALSE]

\* main: `if sw.close():`, then main ends
Close ==
  /\ UNCHANGED sigpc
  /\ pc = "close"
  /\ ser' = close(ser).ser
  /\ closes' = closes + close(ser).released
  /\ rets' = Append(rets, close(ser).ret)
  /\ pc' = "done"
  /\ UNCHANGED <<config, preload, dev, pulled, nbytes, engine, ghost,
                 running, stdout, written, rounds>>

\* SerialWrapper.close called again on the wrapper main has closed
CloseAgain ==
  /\ UNCHANGED sigpc
  /\ pc = "done"
  /\ Len(rets) < MaxCloses
  /\ ser' = close(ser).ser
  /\ closes' = closes + close(ser).released
  /\ rets' = Append(rets, close(ser).ret)
  /\ UNCHANGED <<config, preload, dev, pulled, nbytes, engine, ghost,
                 running, pc, stdout, written, rounds>>

\* main's quitSignal handler, on SIGINT or SIGTERM
QuitSignal ==
  /\ pc \notin {"done", "aborted"}
  /\ IF running THEN /\ running' = FALSE
                     /\ sigpc' = pc
                     /\ UNCHANGED pc
     ELSE /\ pc' = "aborted"
          /\ UNCHANGED <<running, sigpc>>
  /\ UNCHANGED <<config, port, engine, ghost, stdout, written, rounds>>

Next ==
  \/ BeginRound
  \/ Prefix
  \/ Escape
  \/ PushByte
  \/ PushTimeout
  \/ PushError
  \/ Reconcile
  \/ Write
  \/ ExitLoop
  \/ Close
  \/ CloseAgain
  \/ QuitSignal

Spec == Init /\ [][Next]_vars

\* the sessions of InitBytes
SpecBytes == InitBytes /\ [][Next]_vars

\* ------------------------------------------------------------- properties
\* a round has been reconciled and its chunk is about to be written
Reconciled == pc = "write"

\* between two rounds, at least one round done
BetweenRounds == pc \in {"write", "while"} /\ rounds >= 1

\* the characters of the registry
Codes == {escapeHandlers[i].char : i \in 1..Len(escapeHandlers)}

\* how many values read() has returned to stream i in the whole session
Consumed(i) == Len(log[i])

\* C1: in buffered mode the k-th value read() returns to a stream is the
\* one the k-th ser.read() call returned, the k-th byte among them is the
\* k-th byte the source delivered, and no reconciliation drops an element
\* that some stream has not read.
C1_InOrder ==
  buffer =>
    /\ \A i \in Streams : \A k \in 1..Len(log[i]) :
          /\ log[i][k].call = k
          /\ log[i][k].seq > 0 =>
                log[i][k].seq =
                  Cardinality({j \in 1..k : log[i][j].seq > 0})
    /\ skipped = {}

\* a second buffered round in which a faster stream is ahead of a slower
\* one that has itself read across a reconciliation that dropped bytes
C1_Witness ==
  /\ buffer
  /\ Reconciled
  /\ rounds >= 2
  /\ last.dropped >= 1
  /\ \E i, j \in Streams : Consumed(i) > Consumed(j) /\ Consumed(j) >= 2

\* C2: in synchronized mode, at the end of every round every cursor is at
\* 0 and the buffer is what it was less its first M elements, M the largest
\* offset any cursor reached in the round.
C2_SyncReset ==
  (~buffer /\ BetweenRounds) =>
    /\ \A i \in Streams : ptr[i] = 0
    /\ last.dropped = Max(Indexes(last.ptrs))
    /\ tag = SubSeq(last.before, Max(Indexes(last.ptrs)) + 1,
                    Len(last.before))

\* a synchronized round in which two streams reached different offsets
C2_Witness ==
  /\ ~buffer
  /\ Reconciled
  /\ \E i, j \in Streams : last.ptrs[i] >= 2 /\ last.ptrs[j] < last.ptrs[i]
  /\ last.dropped >= 2

\* C3: after the reconciliation of every round, in both modes, every
\* cursor's offset is at least 0 and at most the buffer's length.
C3_OffsetsInBuffer ==
  BetweenRounds => \A i \in Streams : 0 <= ptr[i] /\ ptr[i] <= Len(buf)

\* a buffered round that left one cursor at 0 and another at the end of a
\* buffer that is not empty, after a drop
C3_Witness ==
  /\ buffer
  /\ Reconciled
  /\ last.dropped >= 1
  /\ Len(buf) >= 1
  /\ \E i, j \in Streams : ptr[i] = 0 /\ ptr[j] = Len(buf)

\* C4 as stated: whenever a reconciliation drops n elements, in either
\* mode, every cursor's offset goes down by exactly n.
C4_Original ==
  Reconciled => \A i \in Streams : last.ptrs[i] - ptr[i] = last.dropped

\* C4: in buffered mode a reconciliation that drops n elements lowers every
\* cursor's offset by exactly n, and a cursor inside the buffer addresses
\* the same element after the drop; in synchronized mode every cursor goes
\* to 0, so only the cursors that had reached the largest offset go down
\* by n.
C4_Remap ==
  Reconciled =>
    \A i \in Streams :
      IF buffer
      THEN /\ last.ptrs[i] - ptr[i] = last.dropped
           /\ last.ptrs[i] < Len(last.before) =>
                 tag[ptr[i] + 1] = last.before[last.ptrs[i] + 1]
      ELSE /\ ptr[i] = 0
           /\ (last.ptrs[i] - ptr[i] = last.dropped) <=>
                 (last.ptrs[i] = Max(Indexes(last.ptrs)))

\* a buffered reconciliation that dropped bytes and left a cursor inside
\* the buffer
C4_Witness ==
  /\ buffer
  /\ Reconciled
  /\ last.dropped >= 1
  /\ \E i \in Streams : last.ptrs[i] < Len(last.before)

\* C5: in synchronized mode an element dropped in a round in which some
\* stream had not read it is returned by no read of a later round, and no
\* stream is returned the same element twice.
C5_SyncLoss ==
  ~buffer =>
    /\ \A i \in Streams : \A k \in 1..Len(log[i]) : \A s \in skipped :
          log[i][k].call = s.call => log[i][k].round <= s.round
    /\ \A i \in Streams : \A j, k \in 1..Len(log[i]) :
          j < k => log[i][j].call < log[i][k].call

\* a synchronized session that skipped an element for some stream and read
\* again in a later round
C5_Witness ==
  /\ ~buffer
  /\ \E s \in skipped : \E i \in Streams : \E k \in 1..Len(log[i]) :
        log[i][k].round > s.round

\* the scenario of C6: synchronized, `%a` and `%a%a%a`, the source holding
\* 0x41 0x42 0x43 0x44, the first round reconciled
C6_Scenario ==
  /\ ~buffer
  /\ escape = 37
  /\ formats = << <<37, 97>>, <<37, 97, 37, 97, 37, 97>> >>
  /\ preload = <<65, 66, 67, 68>>
  /\ rounds = 1
  /\ Reconciled

\* C6 as stated: the first round consumes 3 bytes, the formats produce `A`
\* and `ABC`, and after the reconciliation 0x44 is held in the buffer.
C6_Original ==
  C6_Scenario =>
    /\ last.dropped = 3
    /\ outs = << <<65>>, <<65, 66, 67>> >>
    /\ \E k \in 1..Len(buf) : buf[k] = <<68>>

\* C6: the first round consumes 3 bytes, the formats produce `A` and `ABC`,
\* and after the reconciliation the buffer is empty: 0x44 has not been
\* pulled, it is still in the source, the next byte a read will return.
C6_Abcd ==
  C6_Scenario =>
    /\ last.dropped = 3
    /\ pulled = 3
    /\ outs = << <<65>>, <<65, 66, 67>> >>
    /\ line = <<65, 65, 66, 67>>
    /\ buf = << >>
    /\ dev = <<68>>

\* the scenario reached, three elements dropped
C6_Witness == C6_Scenario /\ last.dropped = 3

\* C7 as stated: in buffered mode with two formats whose consumption
\* differs in every round, after each reconciliation the buffer's length
\* is the sum over the rounds of (max - min) consumed in the round.
C7_Original ==
  (buffer /\ N = 2 /\ Reconciled /\ differ) => Len(buf) = sumDiff

\* C7: in buffered mode with two formats, after each reconciliation the
\* buffer's length is the largest minus the smallest total consumption of
\* the two streams; it is the sum over the rounds of (max - min) consumed
\* in the round when the same stream consumed the least in every round.
C7_Lag ==
  (buffer /\ N = 2 /\ Reconciled) =>
    /\ Len(buf) = Max({Consumed(i) : i \in Streams})
                    - Min({Consumed(i) : i \in Streams})
    /\ laggers # {} => Len(buf) = sumDiff

\* two buffered rounds with the same stream behind in both
C7_Witness ==
  /\ buffer
  /\ N = 2
  /\ Reconciled
  /\ rounds = 2
  /\ differ
  /\ laggers # {}
  /\ Len(buf) = 2

\* C8 as stated: in synchronized mode with the single format `%a`, after N
\* rounds exactly N bytes have been pulled from the source and the buffer
\* holds at most 1 byte between rounds.
C8_Original ==
  (~buffer /\ escape = 37 /\ formats = << <<37, 97>> >> /\ pc = "while") =>
    /\ nbytes = rounds
    /\ Len(buf) <= 1

\* the steps of Session.read and SerialWrapper.push
EngineStep == Prefix \/ Escape \/ PushByte \/ PushTimeout \/ PushError

\* C9 as stated: a ser.read() that times out appends nothing to the buffer,
\* advances no cursor, produces no text, and leaves the round waiting in
\* the same read.
C9_Original ==
  [][PushTimeout => (/\ buf' = buf
                     /\ ptr' = ptr
                     /\ line' = line
                     /\ AtRead')]_vars

\* Session.read is at an escape character that ends the format
AtTrailingEscape ==
  pc = "read" /\ tk >= 1 /\ tk + 1 = Len(toks) /\ tok = << >>

\* C10 as stated: for every escape character, the escape character that
\* ends a format produces <BADESC> and reads nothing.
C10_Original ==
  [][(AtTrailingEscape /\ EngineStep) =>
       (/\ line' = line \o BADESC
        /\ ptr' = ptr
        /\ buf' = buf
        /\ pulled' = pulled)]_vars

\* C10: for every escape character that is not a code of the registry,
\* the escape character that ends a format produces <BADESC> and reads
\* nothing: no ser.read() call, the cursor and the buffer unchanged.
C10_TrailingEscape ==
  [][(AtTrailingEscape /\ escape \notin Codes /\ EngineStep) =>
       (/\ line' = line \o BADESC
        /\ ptr' = ptr
        /\ buf' = buf
        /\ pulled' = pulled)]_vars

\* the format `x=%d,%` has been processed: two bytes for %d, then <BADESC>
C10_Witness ==
  /\ escape = 37
  /\ formats = << <<120, 61, 37, 100, 44, 37>> >>
  /\ pc = "reconcile"
  /\ ptr[1] = 2
  /\ Len(buf) = 2
  /\ SubSeq(line, Len(line) - 7, Len(line)) = BADESC

\* Session.read is at an escape occurrence whose code is in no registry
\* entry
AtUnknownCode == pc = "read" /\ tk >= 1 /\ tok # << >> /\ tok[1] \notin Codes

\* C11: an escape occurrence whose code matches no registry entry produces
\* exactly <BADESC> followed by the rest of its segment, without a
\* ser.read() call and with every cursor and the buffer unchanged.
C11_UnknownCode ==
  [][(AtUnknownCode /\ EngineStep) =>
       (/\ line' = line \o <<60, 66, 65, 68, 69, 83, 67, 62>> \o Tail(tok)
        /\ ptr' = ptr
        /\ buf' = buf
        /\ pulled' = pulled)]_vars

\* the format `%z!` has been processed: <BADESC>!, no read, cursor at 0
C11_Witness ==
  /\ escape = 37
  /\ formats = << <<37, 122, 33>>, <<37, 110>> >>
  /\ pc = "read"
  /\ fi = 2
  /\ outs[1] = BADESC \o <<33>>
  /\ ptr[1] = 0
  /\ pulled = 0

\* Session.read is at an occurrence that dispatches `e` (the code e, or the
\* escape character e ending a token) and the byte at the cursor is 0x65
AtSelfReference ==
  /\ pc = "read"
  /\ tk >= 1
  /\ Selector(tok, escape) = 101
  /\ ptr[fi] < Len(buf)
  /\ buf[ptr[fi] + 1] = <<101>>

\* C12: when the dynamic escape reads the byte 0x65 it produces <RECESC>,
\* dispatches no second time and advances the cursor by exactly 1, for
\* every escape character.
C12_SelfReference ==
  [][(AtSelfReference /\ EngineStep) =>
       (/\ line' = line \o <<60, 82, 69, 67, 69, 83, 67, 62>> \o Trailing(tok)
        /\ ptr' = [ptr EXCEPT ![fi] = @ + 1]
        /\ buf' = buf
        /\ Pending.depth = 1)]_vars

\* `%e` has read 0x65 under an escape character other than e
C12_Witness ==
  /\ escape = 37
  /\ formats[1] = <<37, 101>>
  /\ rounds = 1
  /\ outs[1] = RECESC
  /\ ptr[1] = 1
  /\ log[1] # << >>

\* C13 as stated: after a read failed in a round, no chunk is written for
\* that round, no later round starts, and the port has been closed when
\* the session has ended.
C13_Original ==
  failed =>
    /\ written = rounds - 1
    /\ pc \in {"close", "done", "aborted"}
    /\ pc \in {"done", "aborted"} => ser = "None"

\* C13: after a read failed in a round, no chunk is written for that
\* round, no later round starts, and the port is closed, once, when main
\* ends; a session that a second quit signal aborts before sw.close()
\* ends with the port not closed.
C13_IoError ==
  failed =>
    /\ written = rounds - 1
    /\ pc \in {"close", "done", "aborted"}
    /\ pc = "done" => (ser = "None" /\ closes = 1 /\ rets[1] = TRUE)
    /\ (pc = "aborted" /\ rets = << >>) => (ser = "open" /\ closes = 0)

\* a read failed in the second round and main has ended
C13_Witness ==
  /\ failed
  /\ pc = "done"
  /\ rounds = 2
  /\ written = 1
  /\ ser = "None"

\* main is inside a round: Session.read or the write of its chunk
InRound == pc \in {"read", "reconcile", "write"}

\* C14 as stated: once the quit signal has cleared running, no round is
\* started and the round in progress goes on to the write of its chunk.
C14_Original ==
  [][~running =>
       (/\ rounds' = rounds
        /\ InRound => (InRound' \/ pc' = "while"))]_vars

\* C14: the first quit signal changes nothing but the running flag; once
\* it is cleared no round is started, main leaves the loop only at the
\* loop test with every started round written, and the round in progress
\* goes on to the write of its chunk unless a read error or a second quit
\* signal ends the session first.
C14_Shutdown ==
  [][/\ (running /\ ~running') =>
          UNCHANGED <<config, port, engine, pc, stdout, written, rounds>>
     /\ ~running =>
          (/\ rounds' = rounds
           /\ InRound => (\/ InRound' \/ pc' = "while"
                          \/ (pc' = "close" /\ failed')
                          \/ pc' = "aborted")
           /\ (pc = "while" /\ pc' = "close") => written = rounds)]_vars

\* the signal arrived while Session.read was running, the round went on
\* to write its chunk and main left the loop
C14_Witness ==
  /\ sigpc = "read"
  /\ ~running
  /\ pc = "close"
  /\ ~failed
  /\ rounds >= 1
  /\ written = rounds
  /\ stdout = line

\* C15: over any sequence of close() calls the port is released exactly
\* once: the first call releases it and returns True, every later call
\* releases nothing and returns False.
C15_CloseOnce ==
  /\ closes = (IF rets = << >> THEN 0 ELSE 1)
  /\ \A k \in 1..Len(rets) : rets[k] = (k = 1)
  /\ rets # << >> => ser = "None"
  /\ rets = << >> => ser = "open"

\* three close() calls
C15_Witness ==
  /\ rets = <<TRUE, FALSE, FALSE>>
  /\ closes = 1
  /\ ser = "None"

\* the first round of a session of SpecBytes has processed its format
FirstRoundRead == rounds = 1 /\ pc = "reconcile"

\* C16: `%d` advances the cursor by exactly 2 and produces the decimal text
\* of (first << 8) | second under both byte orders; 0x01, 0x02 give 258
\* also when the byte order is little-endian.
C16_Word ==
  (formats = << <<37, 100>> >> /\ FirstRoundRead) =>
    /\ ptr[1] = 2
    /\ Len(buf) = 2
    /\ line = Str(256 * preload[1] + preload[2])
    /\ (preload[1] = 1 /\ preload[2] = 2) => line = <<50, 53, 56>>

\* `%d` has read 0x01, 0x02 in a little-endian session
C16_Witness ==
  /\ formats = << <<37, 100>> >>
  /\ FirstRoundRead
  /\ byteorder = "little"
  /\ preload = <<1, 2, 1>>
  /\ line = <<50, 53, 56>>
  /\ ptr[1] = 2

\* the character of the hexadecimal digit d
HexChar(d) == IF d < 10 THEN 48 + d ELSE 87 + d

\* C17: for every byte value 0..255, `%b` produces the 8 binary digits
\* and `%h` the 2 hexadecimal digits of the value, zero-padded (0x05 gives
\* 00000101 and 05, 0x00 gives 00000000 and 00).
C17_FixedWidth ==
  (formats = << <<37, 98, 37, 104>> >> /\ FirstRoundRead) =>
    LET v == preload[1]
    IN  /\ Len(line) = 10
        /\ \A i \in 1..8 : line[i] = 48 + ((v \div (2 ^ (8 - i))) % 2)
        /\ line[9] = HexChar(v \div 16)
        /\ line[10] = HexChar(v % 16)
        /\ v = 5 => line = <<48, 48, 48, 48, 48, 49, 48, 49, 48, 53>>
        /\ v = 0 => line = <<48, 48, 48, 48, 48, 48, 48, 48, 48, 48>>

\* `%b%h` has read 0x05 twice
C17_Witness ==
  /\ formats = << <<37, 98, 37, 104>> >>
  /\ FirstRoundRead
  /\ preload = <<5, 5, 5>>
  /\ line = <<48, 48, 48, 48, 48, 49, 48, 49, 48, 53>>
  /\ ptr[1] = 2

RECURSIVE OccurrencePos(_, _)
\* the position in the format of the escape character that opens ts[k + 1]
OccurrencePos(ts, k) ==
  IF k = 0 THEN 0 ELSE OccurrencePos(ts, k - 1) + Len(ts[k]) + 1

\* the position of the escape-character occurrence being processed
pos == OccurrencePos(toks, tk)

\* the occurrence being processed is the final character of its format
IsFinal == pos = Len(formats[fi])

\* the occurrence being processed is directly followed by the character c
FollowedBy(c) == pos < Len(formats[fi]) /\ formats[fi][pos + 1] = c

\* C18 as stated: an occurrence is dispatched with the escape character as
\* selector if and only if it is the final character of the format, and an
\* occurrence followed by a character selects by that character.
C18_Original ==
  [][(pc = "read" /\ tk >= 1 /\ Escape) =>
       (/\ formats[fi][pos] = escape
        /\ (Selector(tok, escape) = escape) <=> IsFinal
        /\ ~IsFinal => FollowedBy(Selector(tok, escape)))]_vars

\* C18: an occurrence is dispatched with the escape character as selector
\* if and only if it is the final character of the format or is directly
\* followed by another escape character (which is a further occurrence of
\* its own); an occurrence followed by a character selects by that
\* character, and the text of the selected operation is what is appended.
C18_Selector ==
  [][(pc = "read" /\ tk >= 1 /\ Escape) =>
       LET sel == IF IsFinal THEN escape ELSE formats[fi][pos + 1]
           r == processEscape(sel, ptr[fi], buf, byteorder, 1)
       IN  /\ formats[fi][pos] = escape
           /\ Selector(tok, escape) = sel
           /\ (Selector(tok, escape) = escape) <=> (IsFinal \/ FollowedBy(escape))
           /\ (tok = << >>) <=> (IsFinal \/ FollowedBy(escape))
           /\ ~IsFinal => FollowedBy(Selector(tok, escape))
           /\ Len(line') >= Len(line) + Len(r.text)
           /\ SubSeq(line', 1, Len(line) + Len(r.text)) = line \o r.text
           /\ ptr'[fi] = r.ptr
           /\ FollowedBy(escape) => (pc' = "read" /\ fi' = fi /\ tk' = tk + 1
                                       /\ line' = line \o r.text)]_vars

\* the first `%` of the format `%%a` has been dispatched as `%`: <BADESC>,
\* and the second `%` is the next occurrence, with the code `a`
C18_Witness ==
  /\ escape = 37
  /\ formats = << <<37, 37, 97>> >>
  /\ rounds = 1
  /\ pc = "read"
  /\ tk = 2
  /\ line = BADESC
  /\ ptr[1] = 0
  /\ Selector(tok, escape) = 97

\* main is inside Session.read at an occurrence that selects the dynamic
\* escape `e`
AtDynamic == pc = "read" /\ tk >= 1 /\ Selector(tok, escape) = 101

\* C19: every invocation of the dynamic escape `e` returns after at most
\* 3 reads: it enters processEscape at most once more (depth at most 2)
\* and moves the cursor by at least 1 and at most 3.
C19_Dynamic ==
  [][AtDynamic =>
       (/\ Escape => (/\ Pending.depth \in 1..2
                      /\ ptr'[fi] = Pending.ptr
                      /\ ptr'[fi] - ptr[fi] \in 1..3
                      /\ Pending.depth = 1 => ptr'[fi] - ptr[fi] = 1)
        /\ (PushByte \/ PushTimeout) => pend' \in 1..3)]_vars

\* `%e` has read the byte `d` and then the word 0x41 0x41: three bytes
C19_Witness ==
  /\ escape = 37
  /\ formats[1] = <<37, 101>>
  /\ rounds = 1
  /\ ptr[1] = 3
  /\ Len(buf) >= 3
  /\ buf[1] = <<100>>
  /\ outs[1] = <<49, 54, 55, 48, 53>>

\* the elements the escape in progress has had pushed, and the bytes
\* among them
PulledElements == {j \in 1..Len(buf) : j > Len(buf) - pend}
PulledBytes == {j \in PulledElements : buf[j] # << >>}

\* the offset of the furthest cursor after the reads made so far: every
\* push is for the read of the cursor that then moves past the new element
Furthest == MaxInd(ptr) + pend

\* the number of elements the reads up to offset p need beyond a buffer of
\* the given length: peek(p - 1) pulls max(0, p - length)
Needed(p, length) == Max({0, p - length})

\* C20 as stated: the buffer's length equals the largest cursor offset in
\* every state, the reads of an escape pull exactly the missing number of
\* bytes, and a pull leaves the bytes already buffered unchanged.
C20_Original ==
  /\ [](Len(buf) = Furthest)
  /\ [][/\ (pc = "read" /\ tk >= 1 /\ Escape) =>
             (/\ Cardinality(PulledBytes) = Needed(Pending.ptr, Len(buf) - pend)
              /\ buf' = buf)
        /\ (PushByte \/ PushTimeout) =>
             (/\ SubSeq(buf', 1, Len(buf)) = buf
              /\ Len(buf') = Len(buf) + 1)]_vars

\* C20 counted in buffer elements instead of bytes: the buffer's length
\* equals the largest cursor offset, the reads of an escape make exactly
\* the missing number of ser.read() calls, each appending one element (a
\* byte, or the empty result of a timeout), and the cursor that had
\* elements pulled ends at the end of the buffer.
C20_Elements ==
  /\ [](Len(buf) = Furthest)
  /\ [][/\ (pc = "read" /\ tk >= 1 /\ Escape) =>
             (/\ pend = Needed(Pending.ptr, Len(buf) - pend)
              /\ pend > 0 => ptr'[fi] = Len(buf)
              /\ Len(buf') = MaxInd(ptr')
              /\ buf' = buf)
        /\ (PushByte \/ PushTimeout) =>
             (/\ SubSeq(buf', 1, Len(buf)) = buf
              /\ Len(buf') = Len(buf) + 1
              /\ pulled' = pulled + 1)]_vars

====
